---- MODULE Spec2Model ----
(***************************************************************************)
(* temp-email-guard: the reversed-label domain trie (src/utils/trie.ts),   *)
(* the domain loader (src/data/loader.ts) and the decision layer           *)
(* (src/index.ts).                                                         *)
(*                                                                         *)
(* Strings are sequences of one-character strings, so that toLowerCase,    *)
(* split('.'), trim and indexOf('@') are computed character by character.  *)
(***************************************************************************)
EXTENDS Integers, Sequences, FiniteSets, TLC

\* ---------------------------------------------------------------- bounds
\* most labels in a well-formed domain handed to DomainTrie.insert
MaxLabels == 2
\* number of distinct strings handed to DomainTrie.insert, and most entries
\* of a list handed to initializeDomains on its own
MaxInserts == 2
\* most labels prepended to a registered domain in a subdomain query
MaxPrefixLabels == 2

\* ------------------------------------------------------------ input sets
Labels == {<<"a">>, <<"b">>, <<"A">>}

RECURSIVE Dotted(_)
\* the strings made of 1..n labels joined by dots
Dotted(n) ==
  IF n = 0 THEN {}
  ELSE LET shorter == Dotted(n - 1)
       IN Labels \cup shorter \cup {l \o <<".">> \o s : l \in Labels, s \in shorter}

\* strings that are no dot-delimited sequence of non-empty labels
Malformed == {<<>>, <<".">>, <<"a", ".">>, <<".", "a">>, <<" ">>}

WellFormed == Dotted(MaxLabels)
DomainStrings == WellFormed \cup Malformed
WellFormedQueries == Dotted(MaxLabels + 1)
QueryStrings == WellFormedQueries \cup Malformed
PrefixStrings == Dotted(MaxPrefixLabels)

\* ------------------------------------------------- String.prototype parts
lowerChar(c) == IF c = "A" THEN "a" ELSE IF c = "B" THEN "b" ELSE c

toLowerCase(s) == [i \in 1..Len(s) |-> lowerChar(s[i])]

RECURSIVE splitFrom(_, _, _, _)
\* s.split(sep) from position i, cur being the piece collected so far
splitFrom(s, sep, i, cur) ==
  IF i > Len(s) THEN <<cur>>
  ELSE IF s[i] = sep THEN <<cur>> \o splitFrom(s, sep, i + 1, <<>>)
  ELSE splitFrom(s, sep, i + 1, Append(cur, s[i]))

\* a split that leaves out the empty pieces
splitNonEmpty(s, sep) == SelectSeq(splitFrom(s, sep, 1, <<>>), LAMBDA piece : piece # <<>>)

split(s, sep) == splitFrom(s, sep, 1, <<>>)

reverse(xs) == [i \in 1..Len(xs) |-> xs[Len(xs) + 1 - i]]

\* ---------------------------------------------------------- DomainTrie
\* A node is the path of labels leading to it from the root (nodes have no
\* identity beyond their parent's child map); the root is the empty path.
\* nodes: the paths that exist; ends: the paths whose node has isEnd = true.
NewTrie == [nodes |-> {<<>>}, ends |-> {}]

RECURSIVE insertWalkOverwrite(_, _, _, _)
\* a loop that sets a fresh child node at every step, whether or not the
\* label has a child already
insertWalkOverwrite(t, node, parts, i) ==
  IF i > Len(parts) THEN [t EXCEPT !.ends = @ \cup {node}]
  ELSE LET child == Append(node, parts[i])
           under(p) == Len(p) >= Len(child) /\ SubSeq(p, 1, Len(child)) = child
       IN insertWalkOverwrite(
            [nodes |-> {p \in t.nodes : ~under(p)} \cup {child},
             ends |-> {p \in t.ends : ~under(p)}],
            child, parts, i + 1)

RECURSIVE insertWalkLeafOnly(_, _, _, _)
\* a loop that takes the terminal mark off every node it walks through
insertWalkLeafOnly(t, node, parts, i) ==
  IF i > Len(parts) THEN [t EXCEPT !.ends = @ \cup {node}]
  ELSE LET child == Append(node, parts[i])
       IN insertWalkLeafOnly([nodes |-> t.nodes \cup {child}, ends |-> t.ends \ {node}],
                             child, parts, i + 1)

RECURSIVE insertWalk(_, _, _, _)
\* the for-loop of insert, then node.isEnd = true
insertWalk(t, node, parts, i) ==
  IF i > Len(parts) THEN [t EXCEPT !.ends = @ \cup {node}]
  ELSE LET child == Append(node, parts[i])
       IN insertWalk([t EXCEPT !.nodes = @ \cup {child}], child, parts, i + 1)

\* insert that forgets to normalize the domain to lowercase
insertNoLower(t, domain) ==
  insertWalk(t, <<>>, reverse(split(domain, ".")), 1)

insert(t, domain) ==
  LET normalizedDomain == toLowerCase(domain)
      reversedParts == reverse(split(normalizedDomain, "."))
  IN insertWalk(t, <<>>, reversedParts, 1)

RECURSIVE matchWalkExact(_, _, _, _)
\* a walk that accepts only a terminal node reached by consuming every label
matchWalkExact(t, node, parts, i) ==
  IF i > Len(parts) THEN [hit |-> node \in t.ends, node |-> <<>>]
  ELSE LET childNode == Append(node, parts[i])
       IN IF childNode \notin t.nodes THEN [hit |-> FALSE, node |-> <<>>]
          ELSE matchWalkExact(t, childNode, parts, i + 1)

RECURSIVE matchWalk(_, _, _, _)
\* the inner for-loop of hasDomain: the node the walk stops at and whether
\* it returned true from inside the loop
matchWalk(t, node, parts, i) ==
  IF i > Len(parts) THEN [hit |-> FALSE, node |-> node]
  ELSE LET childNode == Append(node, parts[i])
       IN IF childNode \notin t.nodes THEN [hit |-> FALSE, node |-> node]
          ELSE IF childNode \in t.ends THEN [hit |-> TRUE, node |-> childNode]
          ELSE matchWalk(t, childNode, parts, i + 1)

RECURSIVE suffixLoop(_, _, _)
\* the outer for-loop of hasDomain over start (1-based here)
suffixLoop(t, parts, start) ==
  IF start > Len(parts) THEN FALSE
  ELSE LET w == matchWalk(t, <<>>, parts, start)
       IN IF w.hit THEN TRUE
          ELSE IF w.node \in t.ends THEN TRUE
          ELSE suffixLoop(t, parts, start + 1)

\* hasDomain that forgets to normalize the query to lowercase
hasDomainNoLower(t, domain) ==
  suffixLoop(t, reverse(split(domain, ".")), 1)

hasDomain(t, domain) ==
  LET normalizedDomain == toLowerCase(domain)
      reversedParts == reverse(split(normalizedDomain, "."))
  IN suffixLoop(t, reversedParts, 1)

RECURSIVE fromDomainsLoop(_, _, _)
fromDomainsLoop(t, domains, i) ==
  IF i > Len(domains) THEN t
  ELSE fromDomainsLoop(insert(t, domains[i]), domains, i + 1)

fromDomains(domains) == fromDomainsLoop(NewTrie, domains, 1)

\* --------------------------------------------- more String.prototype parts
isSpace(c) == c = " "

RECURSIVE trimStart(_)
trimStart(s) ==
  IF s # <<>> /\ isSpace(Head(s)) THEN trimStart(Tail(s)) ELSE s

RECURSIVE trimEnd(_)
trimEnd(s) ==
  IF s # <<>> /\ isSpace(s[Len(s)]) THEN trimEnd(SubSeq(s, 1, Len(s) - 1)) ELSE s

trim(s) == trimEnd(trimStart(s))

\* s.indexOf(c): 0-based position of the first c, -1 when there is none
indexOf(s, c) ==
  IF \E i \in 1..Len(s) : s[i] = c
  THEN (CHOOSE i \in 1..Len(s) : s[i] = c /\ \A j \in 1..(i - 1) : s[j] # c) - 1
  ELSE -1

\* s.slice(from), from being 0-based
slice(s, from) == SubSeq(s, from + 1, Len(s))

\* ------------------------------------------------------- nullable values
Null == [some |-> FALSE]
Some(v) == [some |-> TRUE, val |-> v]

\* ------------------------------------------ the domain-supply collaborator
\* what loadDomainsFromFile() can hand back: null, or the list of a local
\* JSON file after map(toLowerCase, trim).filter(Boolean) (possibly empty)
ListA == << <<"a", ".", "b">> >>
ListB == << <<"a", ".", "b", "b">>, <<"b", ".", "a", "a">> >>
\* what JSON.parse of data/all-domains.json can be: no readable file (null),
\* an empty array, an array of blanks, an array with a mixed-case entry
FileContents ==
  {Null, Some(<<>>), Some(<< <<" ">> >>), Some(<< <<"A", ".", "b", " ">> >>)}

\* the local-file loader without d.toLowerCase()
loadDomainsFromFileNoLower(content) ==
  IF ~content.some \/ Len(content.val) = 0 THEN Null
  ELSE Some(SelectSeq([i \in 1..Len(content.val) |-> trim(content.val[i])],
                      LAMBDA d : d # <<>>))

\* loadDomainsFromFile(): null, or the file's entries lowercased, trimmed
\* and with the empty ones filtered out
loadDomainsFromFile(content) ==
  IF ~content.some \/ Len(content.val) = 0 THEN Null
  ELSE Some(SelectSeq([i \in 1..Len(content.val) |-> trim(toLowerCase(content.val[i]))],
                      LAMBDA d : d # <<>>))

FileSupplies == {loadDomainsFromFile(content) : content \in FileContents}

\* a local JSON file that lists one domain twice, in two spellings
RepeatingFileContents == {Some(<< <<"A", ".", "b", " ">>, <<"a", ".", "b">> >>)}
\* s without the prefix p, when it starts with p
stripPrefix(s, p) ==
  IF Len(s) >= Len(p) /\ SubSeq(s, 1, Len(p)) = p
  THEN SubSeq(s, Len(p) + 1, Len(s)) ELSE s

\* normalizeDomain(domain)
normalizeDomain(domain) ==
  LET lowered == trim(toLowerCase(domain))
      noScheme == stripPrefix(stripPrefix(lowered, <<"h", "t", "t", "p", "s", ":", "/", "/">>),
                              <<"h", "t", "t", "p", ":", "/", "/">>)
      noWww == stripPrefix(noScheme, <<"w", "w", "w", ".">>)
  IN split(split(split(noWww, "/")[1], "?")[1], "#")[1]

\* [a-z] and [0-9] under the i flag
isLetter(c) == c \in {"a", "b", "h", "p", "s", "t", "w", "A", "B"}
isDigit(c) == c \in {"0", "1", "2", "3", "4", "5", "6", "7", "8", "9"}

\* [a-z0-9]([a-z0-9\-]{0,61}[a-z0-9])? matches the whole of label
isLabel(label) ==
  /\ Len(label) >= 1 /\ Len(label) <= 63
  /\ \A k \in 1..Len(label) : isLetter(label[k]) \/ isDigit(label[k]) \/ label[k] = "-"
  /\ label[1] # "-" /\ label[Len(label)] # "-"

\* isValidDomain(domain): the four early returns, then domainRegex, which
\* matches labels joined by dots and closed by a dot and two or more letters
isValidDomain(domain) ==
  LET parts == split(domain, ".")
  IN /\ Len(domain) >= 3
     /\ \E k \in 1..Len(domain) : domain[k] = "."
     /\ domain[1] # "." /\ domain[Len(domain)] # "."
     /\ \A k \in 1..Len(domain) : domain[k] # " "
     /\ Len(parts) >= 2
     /\ \A k \in 1..(Len(parts) - 1) : isLabel(parts[k])
     /\ Len(parts[Len(parts)]) >= 2
     /\ \A k \in 1..Len(parts[Len(parts)]) : isLetter(parts[Len(parts)][k])

\* UTF-16 code units of the characters that reach Array.prototype.sort
codeUnit(c) ==
  IF c = "-" THEN 45 ELSE IF c = "." THEN 46 ELSE IF isDigit(c) THEN 48
  ELSE IF c = "a" THEN 97 ELSE IF c = "b" THEN 98 ELSE IF c = "h" THEN 104
  ELSE IF c = "p" THEN 112 ELSE IF c = "s" THEN 115 ELSE IF c = "t" THEN 116
  ELSE 119

RECURSIVE strLess(_, _)
\* the default comparison of sort(): by code units, a prefix first
strLess(s, t) ==
  IF t = <<>> THEN FALSE
  ELSE IF s = <<>> THEN TRUE
  ELSE IF codeUnit(s[1]) # codeUnit(t[1]) THEN codeUnit(s[1]) < codeUnit(t[1])
  ELSE strLess(Tail(s), Tail(t))

RECURSIVE sort(_)
\* Array.from(mergedSet).sort()
sort(S) ==
  IF S = {} THEN <<>>
  ELSE LET least == CHOOSE x \in S : \A y \in S : x = y \/ strLess(x, y)
       IN <<least>> \o sort(S \ {least})

\* the entries the nine sources hand back together, as fetched: nothing at
\* all, or a list with a repeated domain in another letter case, a "www."
\* prefix and an entry whose last label is a single letter
UrlContents ==
  { <<>>,
    << <<"b", ".", "a", "a">>, <<"A", ".", "b", "b", " ">>, <<"a", ".", "b", "b">>,
       <<"w", "w", "w", ".", "b", ".", "a", "a">>, <<"a", ".", "b">> >> }

\* fetchDomainsFromJson/fetchDomainsFromText: each entry lowercased and
\* trimmed, empty ones dropped
fetchDomainsFromJson(data) ==
  SelectSeq([i \in 1..Len(data) |-> trim(toLowerCase(data[i]))], LAMBDA d : d # <<>>)

\* fetchDomains() up to its throw: the entries normalized, the valid ones
\* merged in a Set and sorted
fetchDomains(data) ==
  LET fetched == fetchDomainsFromJson(data)
      mergedSet == {normalizeDomain(fetched[i]) : i \in 1..Len(fetched)}
  IN sort({d \in mergedSet : isValidDomain(d)})

\* what the merge of the remote sources in fetchDomains() can amount to
UrlSupplies == {fetchDomains(data) : data \in UrlContents}

\* e-mail strings handed to isTempEmail
Emails ==
  { <<>>,
    <<"a">>,
    <<"a", "@">>,
    <<"@", "a", ".", "b">>,
    <<"a", "@", "a", ".", "b">>,
    <<"A", "@", "B", ".", "A", "A", " ">>,
    <<"a", "@", "b", ".", "a", ".", "b">> }

\* the arguments of validateEmail: Null stands for a value that is not a
\* string; then the empty string, a blank in the local part, a blank after
\* the domain, a dot first in the domain part, a dot last in it, and three
\* well-formed addresses
ValidateInputs ==
  { Null,
    Some(<<>>),
    Some(<<" ", "a", "@", "a", ".", "b">>),
    Some(<<"A", "@", "B", ".", "A", "A", " ">>),
    Some(<<"a", "@", ".", "b">>),
    Some(<<"a", "@", "b", ".">>),
    Some(<<"a", "@", "a", ".", "b">>),
    Some(<<"a", "@", "b", ".", "a", "a">>),
    Some(<<"a", "@", "b", ".", "a", ".", "b">>) }

\* longest string the structural check is tried on
MaxEmailLen == 5

FormatChars == {"a", "@", ".", " "}

RECURSIVE StringsOfLen(_)
StringsOfLen(n) ==
  IF n = 0 THEN {<<>>}
  ELSE {<<c>> \o s : c \in FormatChars, s \in StringsOfLen(n - 1)}

\* every non-empty string of FormatChars up to MaxEmailLen
FormatStrings == UNION {StringsOfLen(n) : n \in 1..MaxEmailLen}

\* ----------------------------------------------------- more model bounds
\* concurrent invocations of initialize()
MaxCallers == 2
\* load closures that loadDomains() may start
MaxLoads == 2
\* capacity of the verdict cache (MAX_CACHE_SIZE = 1000 in index.ts, scaled)
MAX_CACHE_SIZE == 2

Callers == 1..MaxCallers
LoadIds == 1..MaxLoads

\* ------------------------------------------------------------------ state
VARIABLES
  trie,       \* a DomainTrie object used directly through insert/hasDomain
  inserted,   \* the strings passed to trie.insert so far
  cachedDomains,             \* loader.ts: the loaded list or null
  loadPromise,               \* loader.ts: id of the shared load promise, 0 = null
  loads,                     \* the load closures: promise state and value
  TEMP_EMAIL_DOMAINS_SET,    \* index.ts: Set<string> or null
  TEMP_EMAIL_DOMAINS_TRIE,   \* index.ts: DomainTrie or null
  TEMP_EMAIL_DOMAINS_ARRAY,  \* index.ts: readonly string[] or null
  DOMAIN_CACHE,              \* index.ts: Map<string, boolean> in insertion order
  callers,                   \* the invocations of initialize() and where each stands
  builds                     \* initializeDomains() calls since the last index clearCache()

trieVars == <<trie, inserted>>
loaderVars == <<cachedDomains, loadPromise, loads>>
indexVars == <<TEMP_EMAIL_DOMAINS_SET, TEMP_EMAIL_DOMAINS_TRIE, TEMP_EMAIL_DOMAINS_ARRAY>>
appVars == <<loaderVars, indexVars, DOMAIN_CACHE, callers, builds>>
vars == <<trieVars, appVars>>

\* ------------------------------------------------- loader.ts, synchronous
getCachedDomains == cachedDomains

isDomainsLoaded == cachedDomains.some

\* loader clearCache(): the values of cachedDomains and loadPromise after it
loaderClearCache == [cachedDomains |-> Null, loadPromise |-> 0]

\* loadDomains() that forgets to hand out the promise of the load in flight
loadDomainsBranchNoJoin ==
  IF cachedDomains.some THEN "cached" ELSE "start"

\* which of its three returns loadDomains() takes
loadDomainsBranch ==
  IF cachedDomains.some THEN "cached"
  ELSE IF loadPromise # 0 THEN "join"
  ELSE "start"

\* the closure without the `merged.length === 0` throw of fetchDomains
loadClosureNoThrow(file, url) ==
  IF file.some /\ Len(file.val) > 0
  THEN [state |-> "fulfilled", value |-> file.val, cached |-> Some(file.val)]
  ELSE [state |-> "fulfilled", value |-> url, cached |-> Some(url)]

\* the async closure of loadDomains, from what the collaborator handed back:
\* the settled promise and the value written to cachedDomains (if any)
loadClosure(file, url) ==
  IF file.some /\ Len(file.val) > 0
  THEN [state |-> "fulfilled", value |-> file.val, cached |-> Some(file.val)]
  ELSE IF Len(url) = 0
       THEN [state |-> "rejected", value |-> <<>>, cached |-> Null]
       ELSE [state |-> "fulfilled", value |-> url, cached |-> Some(url)]

\* ------------------------------------------------------ index.ts, helpers
\* DOMAIN_CACHE.get(domain) !== undefined
cacheHas(cache, domain) == \E i \in 1..Len(cache) : cache[i].key = domain

\* a lookup that reads the oldest entry whatever the key
cacheGetOldest(cache, domain) == cache[1].value

cacheGet(cache, domain) ==
  cache[CHOOSE i \in 1..Len(cache) : cache[i].key = domain].value

\* Map.prototype.set: an existing key keeps its place
mapSet(cache, domain, result) ==
  IF cacheHas(cache, domain)
  THEN [i \in 1..Len(cache) |->
          IF cache[i].key = domain THEN [key |-> domain, value |-> result] ELSE cache[i]]
  ELSE Append(cache, [key |-> domain, value |-> result])

\* cacheResult without the size check of lines 34-39
cacheResultNoEvict(cache, domain, result) == mapSet(cache, domain, result)

\* cacheResult that makes room by deleting the newest key
cacheResultEvictNewest(cache, domain, result) ==
  LET room == IF Len(cache) >= MAX_CACHE_SIZE /\ Len(cache) > 0
              THEN SubSeq(cache, 1, Len(cache) - 1) ELSE cache
  IN mapSet(room, domain, result)

\* cacheResult(domain, result): the Map afterwards; the first key in
\* iteration order is deleted when the Map is full
cacheResult(cache, domain, result) ==
  LET room == IF Len(cache) >= MAX_CACHE_SIZE /\ Len(cache) > 0 THEN Tail(cache) ELSE cache
  IN mapSet(room, domain, result)

\* initializeDomains that builds the trie without the first entry
initializeDomainsSkipFirst(domains) ==
  [set |-> Some({domains[i] : i \in 1..Len(domains)}),
   trie |-> Some(fromDomains(Tail(domains))),
   array |-> Some(domains)]

\* initializeDomains(domains): the three module variables it assigns
initializeDomains(domains) ==
  [set |-> Some({domains[i] : i \in 1..Len(domains)}),
   trie |-> Some(fromDomains(domains)),
   array |-> Some(domains)]

\* getTempEmailDomains() that answers from the loader's list
getTempEmailDomainsFromLoader ==
  IF cachedDomains.some THEN cachedDomains.val ELSE <<>>

\* getTempEmailDomains()
getTempEmailDomains ==
  IF TEMP_EMAIL_DOMAINS_ARRAY.some THEN TEMP_EMAIL_DOMAINS_ARRAY.val ELSE <<>>

\* the index as isTempEmail finds it
indexNow ==
  [set |-> TEMP_EMAIL_DOMAINS_SET, trie |-> TEMP_EMAIL_DOMAINS_TRIE,
   array |-> TEMP_EMAIL_DOMAINS_ARRAY, cache |-> DOMAIN_CACHE, built |-> FALSE]

\* the lookup without .trim() on the extracted domain
isTempEmailLookupNoTrim(email, idx) ==
  LET atIndex == indexOf(email, "@")
      no == [value |-> FALSE, threw |-> FALSE, idx |-> idx]
  IN IF atIndex = -1 \/ atIndex = Len(email) - 1 THEN no
     ELSE LET domain == toLowerCase(slice(email, atIndex + 1))
          IN IF domain = <<>> THEN no
             ELSE IF cacheHas(idx.cache, domain)
             THEN [value |-> cacheGet(idx.cache, domain), threw |-> FALSE, idx |-> idx]
             ELSE IF ~idx.set.some \/ ~idx.trie.some
             THEN [value |-> FALSE, threw |-> TRUE, idx |-> idx]
             ELSE LET result == IF domain \in idx.set.val THEN TRUE
                                ELSE hasDomain(idx.trie.val, domain)
                  IN [value |-> result, threw |-> FALSE,
                      idx |-> [idx EXCEPT !.cache = cacheResult(@, domain, result)]]

\* the lookup with the whole e-mail as the cache key
isTempEmailLookupByEmail(email, idx) ==
  LET atIndex == indexOf(email, "@")
      no == [value |-> FALSE, threw |-> FALSE, idx |-> idx]
  IN IF atIndex = -1 \/ atIndex = Len(email) - 1 THEN no
     ELSE LET domain == trim(toLowerCase(slice(email, atIndex + 1)))
          IN IF domain = <<>> THEN no
             ELSE IF cacheHas(idx.cache, email)
             THEN [value |-> cacheGet(idx.cache, email), threw |-> FALSE, idx |-> idx]
             ELSE IF ~idx.set.some \/ ~idx.trie.some
             THEN [value |-> FALSE, threw |-> TRUE, idx |-> idx]
             ELSE LET result == IF domain \in idx.set.val THEN TRUE
                                ELSE hasDomain(idx.trie.val, domain)
                  IN [value |-> result, threw |-> FALSE,
                      idx |-> [idx EXCEPT !.cache = cacheResult(@, email, result)]]

\* isTempEmail from the domain extraction on (lines 151-188), on index idx.
\* threw: a TypeError from calling a method of null.
isTempEmailLookup(email, idx) ==
  LET atIndex == indexOf(email, "@")
      no == [value |-> FALSE, threw |-> FALSE, idx |-> idx]
  IN IF atIndex = -1 \/ atIndex = Len(email) - 1 THEN no
     ELSE LET domain == trim(toLowerCase(slice(email, atIndex + 1)))
          IN IF domain = <<>> THEN no
             ELSE IF cacheHas(idx.cache, domain)
             THEN [value |-> cacheGet(idx.cache, domain), threw |-> FALSE, idx |-> idx]
             ELSE IF ~idx.set.some \/ ~idx.trie.some
             THEN [value |-> FALSE, threw |-> TRUE, idx |-> idx]
             ELSE LET result == IF domain \in idx.set.val THEN TRUE
                                ELSE hasDomain(idx.trie.val, domain)
                  IN [value |-> result, threw |-> FALSE,
                      idx |-> [idx EXCEPT !.cache = cacheResult(@, domain, result)]]

\* isTempEmail without the "not loaded yet" block of lines 141-149
isTempEmailNoGuard(email) ==
  IF email = <<>> THEN [value |-> FALSE, threw |-> FALSE, idx |-> indexNow]
  ELSE isTempEmailLookup(email, indexNow)

\* isTempEmail(email) run on index state idx with the loader holding cached:
\* the value returned and the index state left behind
isTempEmailOn(email, idx, cached) ==
  IF email = <<>> THEN [value |-> FALSE, threw |-> FALSE, idx |-> idx]
  ELSE IF ~idx.set.some \/ ~idx.trie.some
  THEN IF cached.some
       THEN isTempEmailLookup(email,
              initializeDomains(cached.val) @@ [cache |-> idx.cache, built |-> TRUE])
       ELSE [value |-> FALSE, threw |-> FALSE, idx |-> idx]
  ELSE isTempEmailLookup(email, idx)

\* isTempEmail(email) in the current state
isTempEmail(email) == isTempEmailOn(email, indexNow, getCachedDomains)

\* EMAIL_REGEX.test(s) for /^[^\s@]+@[^\s@]+\.[^\s@]+$/: s[1..i-1], s[i+1..j-1]
\* and s[j+1..] are each a non-empty run of [^\s@], s[i] is "@", s[j] is "."
notSpaceOrAt(s, from, to) ==
  /\ from <= to
  /\ \A k \in from..to : ~isSpace(s[k]) /\ s[k] # "@"

\* a looser pattern, /^[^@]+@[^@]*\.[^@]*$/
EMAIL_REGEX_Loose(s) ==
  \E i \in 1..Len(s), j \in 1..Len(s) :
    /\ 1 < i /\ i < j
    /\ s[i] = "@"
    /\ s[j] = "."
    /\ \A k \in 1..Len(s) : k # i => s[k] # "@"

EMAIL_REGEX(s) ==
  \E i \in 1..Len(s), j \in 1..Len(s) :
    /\ i < j
    /\ s[i] = "@"
    /\ s[j] = "."
    /\ notSpaceOrAt(s, 1, i - 1)
    /\ notSpaceOrAt(s, i + 1, j - 1)
    /\ notSpaceOrAt(s, j + 1, Len(s))

\* validateEmail that asks isTempEmail before it looks at the format
validateEmailLookupFirst(email) ==
  IF ~email.some \/ email.val = <<>>
  THEN [isValid |-> FALSE, isTempEmail |-> FALSE,
        error |-> Some("Email is required and must be a string"), idx |-> indexNow]
  ELSE LET isTemp == isTempEmail(email.val)
       IN IF ~EMAIL_REGEX(email.val)
          THEN [isValid |-> FALSE, isTempEmail |-> FALSE,
                error |-> Some("Invalid email format"), idx |-> isTemp.idx]
          ELSE [isValid |-> TRUE, isTempEmail |-> isTemp.value,
                error |-> IF isTemp.value
                          THEN Some("Email is from a temporary email service")
                          ELSE Null,
                idx |-> isTemp.idx]

\* validateEmail that leaves error null on a temporary address
validateEmailNoError(email) ==
  IF ~email.some \/ email.val = <<>>
  THEN [isValid |-> FALSE, isTempEmail |-> FALSE,
        error |-> Some("Email is required and must be a string"), idx |-> indexNow]
  ELSE IF ~EMAIL_REGEX(email.val)
  THEN [isValid |-> FALSE, isTempEmail |-> FALSE,
        error |-> Some("Invalid email format"), idx |-> indexNow]
  ELSE LET isTemp == isTempEmail(email.val)
       IN [isValid |-> TRUE, isTempEmail |-> isTemp.value, error |-> Null,
           idx |-> isTemp.idx]

\* validateEmail(email): the EmailValidationResult and the index state left
\* behind; email is Null for a value that is not a string
validateEmail(email) ==
  IF ~email.some \/ email.val = <<>>
  THEN [isValid |-> FALSE, isTempEmail |-> FALSE,
        error |-> Some("Email is required and must be a string"), idx |-> indexNow]
  ELSE IF ~EMAIL_REGEX(email.val)
  THEN [isValid |-> FALSE, isTempEmail |-> FALSE,
        error |-> Some("Invalid email format"), idx |-> indexNow]
  ELSE LET isTemp == isTempEmail(email.val)
       IN [isValid |-> TRUE, isTempEmail |-> isTemp.value,
           error |-> IF isTemp.value THEN Some("Email is from a temporary email service")
                     ELSE Null,
           idx |-> isTemp.idx]

\* ------------------------------------------------------------ the program
IdleCaller == [pc |-> "idle", load |-> 0, got |-> Null, cleared |-> FALSE, reset |-> FALSE]
UnusedLoad == [state |-> "unused", value |-> <<>>, cleared |-> FALSE]

AppInit ==
  /\ cachedDomains = Null
  /\ loadPromise = 0
  /\ loads = [l \in LoadIds |-> UnusedLoad]
  /\ TEMP_EMAIL_DOMAINS_SET = Null
  /\ TEMP_EMAIL_DOMAINS_TRIE = Null
  /\ TEMP_EMAIL_DOMAINS_ARRAY = Null
  /\ DOMAIN_CACHE = <<>>
  /\ callers = [c \in Callers |-> IdleCaller]
  /\ builds = 0

TrieInit ==
  /\ trie = NewTrie
  /\ inserted = {}

Init == TrieInit /\ AppInit

\* caller c invokes initialize(): ensureDomainsLoaded and loadDomains run up
\* to the first await
Call(c) ==
  /\ callers[c].pc = "idle"
  /\ \A d \in Callers : d < c => callers[d].pc # "idle"
  /\ IF isDomainsLoaded
     THEN /\ callers' = [callers EXCEPT ![c].pc = "loaded"]
          /\ UNCHANGED <<loadPromise, loads>>
     ELSE IF loadDomainsBranch = "join"
     THEN /\ callers' = [callers EXCEPT ![c].pc = "awaiting", ![c].load = loadPromise]
          /\ UNCHANGED <<loadPromise, loads>>
     ELSE /\ \E l \in LoadIds :
               /\ loads[l].state = "unused"
               /\ \A k \in LoadIds : k < l => loads[k].state # "unused"
               /\ loads' = [loads EXCEPT ![l].state = "running"]
               /\ loadPromise' = l
               /\ callers' = [callers EXCEPT ![c].pc = "awaiting", ![c].load = l]
  /\ UNCHANGED <<trieVars, cachedDomains, indexVars, DOMAIN_CACHE, builds>>

\* the closure of load l runs to its end with what the collaborator supplied
LoadCompleteFrom(l, files, urls) ==
  /\ loads[l].state = "running"
  /\ \E file \in files, url \in urls :
       LET r == loadClosure(file, url)
       IN /\ loads' = [loads EXCEPT ![l].state = r.state, ![l].value = r.value]
          /\ cachedDomains' = IF r.cached.some THEN r.cached ELSE cachedDomains
  /\ UNCHANGED <<trieVars, loadPromise, indexVars, DOMAIN_CACHE, callers, builds>>

LoadComplete(l) == LoadCompleteFrom(l, FileSupplies, UrlSupplies)

\* the same with the local files that repeat an entry among the files
LoadCompleteAnyFile(l) ==
  LoadCompleteFrom(l, {loadDomainsFromFile(content) :
                         content \in FileContents \cup RepeatingFileContents},
                   UrlSupplies)

\* ensureDomainsLoaded of caller c continues after `await loadDomains()`
Resume(c) ==
  /\ callers[c].pc = "awaiting"
  /\ loads[callers[c].load].state \in {"fulfilled", "rejected"}
  /\ IF loads[callers[c].load].state = "rejected"
     THEN /\ callers' = [callers EXCEPT ![c].pc = "rejected"]
          /\ UNCHANGED <<indexVars, builds>>
     ELSE LET domains == loads[callers[c].load].value
              ix == initializeDomains(domains)
          IN /\ callers' = [callers EXCEPT ![c].pc = "loaded", ![c].got = Some(domains)]
             /\ IF ~TEMP_EMAIL_DOMAINS_SET.some
                THEN /\ TEMP_EMAIL_DOMAINS_SET' = ix.set
                     /\ TEMP_EMAIL_DOMAINS_TRIE' = ix.trie
                     /\ TEMP_EMAIL_DOMAINS_ARRAY' = ix.array
                     /\ builds' = builds + 1
                ELSE UNCHANGED <<indexVars, builds>>
  /\ UNCHANGED <<trieVars, loaderVars, DOMAIN_CACHE>>

\* initialize() of caller c continues after `await ensureDomainsLoaded()`
\* and resolves
Finish(c) ==
  /\ callers[c].pc = "loaded"
  /\ callers' = [callers EXCEPT ![c].pc = "resolved"]
  /\ UNCHANGED <<trieVars, loaderVars, indexVars, DOMAIN_CACHE, builds>>

\* a synchronous isTempEmail(email) call
IsTempEmail(email) ==
  LET r == isTempEmail(email)
  IN /\ TEMP_EMAIL_DOMAINS_SET' = r.idx.set
     /\ TEMP_EMAIL_DOMAINS_TRIE' = r.idx.trie
     /\ TEMP_EMAIL_DOMAINS_ARRAY' = r.idx.array
     /\ DOMAIN_CACHE' = r.idx.cache
     /\ builds' = IF r.idx.built THEN builds + 1 ELSE builds
     /\ UNCHANGED <<trieVars, loaderVars, callers>>

\* a synchronous validateEmail(email) call
ValidateEmail(email) ==
  LET r == validateEmail(email)
  IN /\ TEMP_EMAIL_DOMAINS_SET' = r.idx.set
     /\ TEMP_EMAIL_DOMAINS_TRIE' = r.idx.trie
     /\ TEMP_EMAIL_DOMAINS_ARRAY' = r.idx.array
     /\ DOMAIN_CACHE' = r.idx.cache
     /\ builds' = IF r.idx.built THEN builds + 1 ELSE builds
     /\ UNCHANGED <<trieVars, loaderVars, callers>>

\* clearCache() of index.ts that leaves DOMAIN_CACHE as it is
ResetKeepCache ==
  LET lc == loaderClearCache
  IN /\ TEMP_EMAIL_DOMAINS_SET' = Null
     /\ TEMP_EMAIL_DOMAINS_TRIE' = Null
     /\ TEMP_EMAIL_DOMAINS_ARRAY' = Null
     /\ cachedDomains' = lc.cachedDomains
     /\ loadPromise' = lc.loadPromise
     /\ builds' = 0
     /\ callers' = [c \in Callers |->
          IF callers[c].pc = "idle" THEN callers[c]
          ELSE [callers[c] EXCEPT !.cleared = TRUE, !.reset = TRUE]]
     /\ loads' = [l \in LoadIds |->
          IF loads[l].state = "unused" THEN loads[l] ELSE [loads[l] EXCEPT !.cleared = TRUE]]
     /\ UNCHANGED <<trieVars, DOMAIN_CACHE>>

\* clearCache() of index.ts
Reset ==
  LET lc == loaderClearCache
  IN /\ TEMP_EMAIL_DOMAINS_SET' = Null
     /\ TEMP_EMAIL_DOMAINS_TRIE' = Null
     /\ TEMP_EMAIL_DOMAINS_ARRAY' = Null
     /\ DOMAIN_CACHE' = <<>>
     /\ cachedDomains' = lc.cachedDomains
     /\ loadPromise' = lc.loadPromise
     /\ builds' = 0
     /\ callers' = [c \in Callers |->
          IF callers[c].pc = "idle" THEN callers[c]
          ELSE [callers[c] EXCEPT !.cleared = TRUE, !.reset = TRUE]]
     /\ loads' = [l \in LoadIds |->
          IF loads[l].state = "unused" THEN loads[l] ELSE [loads[l] EXCEPT !.cleared = TRUE]]
     /\ UNCHANGED trieVars

\* clearCache() of loader.ts called on its own
ClearLoaderCache ==
  LET lc == loaderClearCache
  IN /\ cachedDomains' = lc.cachedDomains
     /\ loadPromise' = lc.loadPromise
     /\ callers' = [c \in Callers |->
          IF callers[c].pc = "idle" THEN callers[c] ELSE [callers[c] EXCEPT !.cleared = TRUE]]
     /\ loads' = [l \in LoadIds |->
          IF loads[l].state = "unused" THEN loads[l] ELSE [loads[l] EXCEPT !.cleared = TRUE]]
     /\ UNCHANGED <<trieVars, indexVars, DOMAIN_CACHE, builds>>

Next ==
  \/ \E c \in Callers : Call(c)
  \/ \E l \in LoadIds : LoadComplete(l)
  \/ \E c \in Callers : Resume(c)
  \/ \E c \in Callers : Finish(c)
  \/ \E e \in Emails : IsTempEmail(e)
  \/ Reset
  \/ ClearLoaderCache

Spec == Init /\ [][Next]_vars

\* the same program with validateEmail called as well
NextCalls ==
  \/ Next
  \/ \E e \in ValidateInputs : ValidateEmail(e)

SpecCalls == Init /\ [][NextCalls]_vars

\* what index.ts exports: initialize(), isTempEmail() and clearCache(); the
\* loader's own clearCache() is not called from outside
NextApi ==
  \/ \E c \in Callers : Call(c)
  \/ \E l \in LoadIds : LoadComplete(l)
  \/ \E c \in Callers : Resume(c)
  \/ \E c \in Callers : Finish(c)
  \/ \E e \in Emails : IsTempEmail(e)
  \/ Reset

SpecApi == Init /\ [][NextApi]_vars

\* initialize(), the loads and the two clearCache(), with any local file
NextLoad ==
  \/ \E c \in Callers : Call(c)
  \/ \E l \in LoadIds : LoadCompleteAnyFile(l)
  \/ \E c \in Callers : Resume(c)
  \/ \E c \in Callers : Finish(c)
  \/ Reset
  \/ ClearLoaderCache

SpecLoad == Init /\ [][NextLoad]_vars

\* ------------------------------------------- initializeDomains on its own
\* the lists initializeDomains is applied to
DomainLists == UNION {[1..n -> DomainStrings] : n \in 1..MaxInserts}

\* initializeDomains(domains)
InitializeDomains(domains) ==
  /\ LET ix == initializeDomains(domains)
     IN /\ TEMP_EMAIL_DOMAINS_SET' = ix.set
        /\ TEMP_EMAIL_DOMAINS_TRIE' = ix.trie
        /\ TEMP_EMAIL_DOMAINS_ARRAY' = ix.array
  /\ builds' = builds + 1
  /\ UNCHANGED <<trieVars, loaderVars, DOMAIN_CACHE, callers>>

\* its two callers, ensureDomainsLoaded and isTempEmail, call it only while
\* the set is null
NextIndex ==
  /\ ~TEMP_EMAIL_DOMAINS_SET.some
  /\ \E domains \in DomainLists : InitializeDomains(domains)

SpecIndex == Init /\ [][NextIndex]_vars

\* ------------------------------------------------- a DomainTrie on its own
\* trie.insert(d)
Insert(d) ==
  /\ d \in inserted \/ Cardinality(inserted) < MaxInserts
  /\ trie' = insert(trie, d)
  /\ inserted' = inserted \cup {d}
  /\ UNCHANGED appVars

TrieNext == \E d \in DomainStrings : Insert(d)

SpecTrie == Init /\ [][TrieNext]_vars

\* ================================================ properties of DomainTrie
\* the labels of a domain in canonical (lowercase) form
labels(s) == split(toLowerCase(s), ".")

\* a is b with zero or more leading labels removed
isLabelSuffix(a, b) ==
  /\ Len(a) <= Len(b)
  /\ SubSeq(b, Len(b) - Len(a) + 1, Len(b)) = a

\* every ordering of a finite set as a list
Orderings(S) ==
  {f \in [1..Cardinality(S) -> S] : \A i, j \in 1..Cardinality(S) : f[i] = f[j] => i = j}

\* C1: non-containment. hasDomain(Q) is true only when Q equals a registered
\* domain or is a registered domain with one or more labels prepended; a
\* query with no registered ancestor yields false. Stated for well-formed
\* domains (non-empty labels) on both sides.
NonContainment ==
  inserted \subseteq WellFormed =>
    \A q \in WellFormedQueries :
      hasDomain(trie, q) => \E d \in inserted : isLabelSuffix(labels(d), labels(q))

\* C2: subdomain closure. For every inserted domain D and every non-empty
\* prefix P, hasDomain(P + "." + D) is true, whatever else is in the trie.
SubdomainClosure ==
  \A d \in inserted : \A p \in PrefixStrings :
    hasDomain(trie, p \o <<".">> \o d)

\* a state where a multi-label and another domain are both registered
SubdomainClosureWitness ==
  /\ Cardinality(inserted) = MaxInserts
  /\ \E d \in inserted : Len(labels(d)) = 2 /\ hasDomain(trie, <<"b", ".", "a", ".">> \o d)

\* C3: exactness. After any sequence of inserts, and for fromDomains over
\* any ordering of the same list, hasDomain(D) is true for every inserted D,
\* single-label domains included.
Exactness ==
  /\ \A d \in inserted : hasDomain(trie, d)
  /\ \A ds \in Orderings(inserted) : \A d \in inserted : hasDomain(fromDomains(ds), d)

\* a state where a single-label domain is registered next to another one
ExactnessWitness ==
  /\ Cardinality(inserted) = MaxInserts
  /\ \E d \in inserted : Len(d) > 0 /\ Len(labels(d)) = 1 /\ hasDomain(trie, d)

\* C4: case invariance. hasDomain answers every letter-case variant of a
\* query as it answers the lowercase spelling they share, and inserting a letter-case variant of a domain builds the
\* trie that inserting its lowercase form builds.
CaseInvariance ==
  /\ \A q \in QueryStrings : hasDomain(trie, q) = hasDomain(trie, toLowerCase(q))
  /\ \A d \in DomainStrings : insert(trie, d) = insert(trie, toLowerCase(d))

\* a state where a domain was inserted with an uppercase letter and is found
\* under its lowercase spelling
CaseInvarianceWitness ==
  \E d \in inserted :
    /\ d # toLowerCase(d)
    /\ hasDomain(trie, toLowerCase(d))
    /\ hasDomain(trie, d)

\* ========================================== properties of loader and index
indexBuilt ==
  /\ TEMP_EMAIL_DOMAINS_SET.some
  /\ TEMP_EMAIL_DOMAINS_TRIE.some
  /\ TEMP_EMAIL_DOMAINS_ARRAY.some

\* the initialize() calls made since the last clearCache() of either module
\* that reached `await loadDomains()`
joinedCallers ==
  {c \in Callers : callers[c].pc # "idle" /\ ~callers[c].cleared /\ callers[c].load # 0}

\* the loads started since the last clearCache() of either module
currentLoads == {l \in LoadIds : loads[l].state # "unused" /\ ~loads[l].cleared}

\* C5: single flight. With no clearCache() in between, the callers that call
\* initialize() before the load has completed start one load between them,
\* the set and trie are built at most once, and all of them get the outcome
\* of that one load: the same list, or the same failure.
SingleFlight ==
  /\ Cardinality(currentLoads) <= 1
  /\ builds <= 1
  /\ \A c \in joinedCallers : callers[c].load \in currentLoads
  /\ \A c, d \in joinedCallers :
       /\ callers[c].load = callers[d].load
       /\ callers[c].pc \in {"loaded", "resolved"} =>
            /\ builds = 1
            /\ indexBuilt
            /\ callers[d].pc # "rejected"
            /\ callers[d].pc \in {"loaded", "resolved"} => callers[d].got = callers[c].got

\* two callers joined one load, both resolved, one build
SingleFlightWitness ==
  /\ Cardinality(joinedCallers) >= 2
  /\ \A c \in joinedCallers : callers[c].pc = "resolved"
  /\ builds = 1
  /\ indexBuilt

\* C6 as claimed: any isTempEmail call made before an initialize() call has
\* completed returns false, whatever the load in progress has done so far.
FalseBeforeInitializeCompletes ==
  (\A c \in Callers : ~(callers[c].pc = "resolved" /\ ~callers[c].reset)) =>
    \A e \in Emails : ~isTempEmail(e).value /\ ~isTempEmail(e).threw

\* C6 as amended: while the set/trie are unbuilt and the loader holds no
\* list, isTempEmail returns false for every input, throws nothing and
\* leaves the index and the cache as they were.
FalseWhileNothingLoaded ==
  ((~TEMP_EMAIL_DOMAINS_SET.some \/ ~TEMP_EMAIL_DOMAINS_TRIE.some) /\ ~isDomainsLoaded) =>
    \A e \in Emails :
      /\ ~isTempEmail(e).value
      /\ ~isTempEmail(e).threw
      /\ isTempEmail(e).idx = indexNow

\* a load is in progress, nothing has been loaded, a caller waits
FalseWhileNothingLoadedWitness ==
  /\ ~isDomainsLoaded
  /\ ~TEMP_EMAIL_DOMAINS_SET.some
  /\ \E c \in Callers :
       /\ callers[c].pc = "awaiting"
       /\ loads[callers[c].load].state = "running"
  /\ ~isTempEmail(<<"a", "@", "a", ".", "b">>).value

\* C7: ready implies built. Once an initialize() call has resolved, and no
\* index clearCache() has run since, the set, the trie and the array are
\* built and getTempEmailDomains() returns the loaded, non-empty list.
ReadyImpliesBuilt ==
  (\E c \in Callers : callers[c].pc = "resolved" /\ ~callers[c].reset) =>
    /\ indexBuilt
    /\ Len(getTempEmailDomains) > 0

\* C8: a failed initialization is recoverable by calling again. When an
\* initialize() call has failed and no clearCache() ran since, the step in
\* which initialize() is called again starts a new load.
RetryStartsNewLoad ==
  [][\A c \in Callers :
       ( /\ callers[c].pc = "idle"
         /\ callers'[c].pc # "idle"
         /\ \E d \in Callers : callers[d].pc = "rejected" /\ ~callers[d].cleared
         /\ ~isDomainsLoaded )
       => \E l \in LoadIds : loads[l].state = "unused" /\ loads'[l].state = "running"]_vars

\* C9: a supply of zero domains is fatal. The load closure rejects and
\* writes no list when neither the file nor the remote sources yield a
\* domain; every list the system holds (loader cache, settled loads, domain
\* array, set) is non-empty; a caller whose load was rejected ends rejected.
ZeroSupplyFatal ==
  /\ \A file \in FileSupplies, url \in UrlSupplies :
       (~(file.some /\ Len(file.val) > 0) /\ Len(url) = 0) =>
         /\ loadClosure(file, url).state = "rejected"
         /\ ~loadClosure(file, url).cached.some
  /\ isDomainsLoaded => Len(cachedDomains.val) > 0
  /\ \A l \in LoadIds : loads[l].state = "fulfilled" => Len(loads[l].value) > 0
  /\ TEMP_EMAIL_DOMAINS_ARRAY.some => Len(TEMP_EMAIL_DOMAINS_ARRAY.val) > 0
  /\ TEMP_EMAIL_DOMAINS_SET.some => TEMP_EMAIL_DOMAINS_SET.val # {}
  /\ \A c \in Callers :
       (callers[c].load # 0 /\ loads[callers[c].load].state = "rejected") =>
         callers[c].pc \in {"awaiting", "rejected"}

\* a load was rejected, its caller failed, and the system is not ready
ZeroSupplyFatalWitness ==
  /\ \E c \in Callers :
       /\ callers[c].pc = "rejected"
       /\ loads[callers[c].load].state = "rejected"
  /\ ~isDomainsLoaded
  /\ ~indexBuilt
  /\ getTempEmailDomains = <<>>

\* C10: reset. A step of index clearCache() leaves the set, the trie, the
\* array, the verdict cache and the loader's list empty, so that right after
\* it isTempEmail is false for every input and getTempEmailDomains() is
\* empty; and the next initialize() call after it starts a new load.
ResetForcesReload ==
  [][ /\ Reset =>
           /\ ~TEMP_EMAIL_DOMAINS_SET'.some
           /\ ~TEMP_EMAIL_DOMAINS_TRIE'.some
           /\ ~isDomainsLoaded'
           /\ DOMAIN_CACHE' = <<>>
           /\ getTempEmailDomains' = <<>>
           /\ \A e \in Emails : ~isTempEmail(e)'.value /\ ~isTempEmail(e)'.threw
      /\ \A c \in Callers :
           ( /\ callers[c].pc = "idle"
             /\ callers'[c].pc # "idle"
             /\ \E d \in Callers : callers[d].reset
             /\ \A d \in Callers : callers[d].pc # "idle" => callers[d].reset )
           => \E l \in LoadIds : loads[l].state = "unused" /\ loads'[l].state = "running"
    ]_vars

\* ------------------------------------------- properties: the verdict cache
\* C11: cache bound. In every state reached by any sequence of isTempEmail
\* and validateEmail calls (and of the other operations), DOMAIN_CACHE holds
\* at most MAX_CACHE_SIZE entries.
CacheBound == Len(DOMAIN_CACHE) <= MAX_CACHE_SIZE

\* the cache is full and a call on a domain not yet cached stores one more
\* verdict
CacheBoundWitness ==
  /\ Len(DOMAIN_CACHE) = MAX_CACHE_SIZE
  /\ \E e \in ValidateInputs :
       LET r == validateEmail(e)
       IN /\ r.isValid
          /\ r.idx.cache # DOMAIN_CACHE
          /\ Len(r.idx.cache) = MAX_CACHE_SIZE

\* C12: coherence on repeat. With the index built, when isTempEmail(e) has
\* returned v, the same call made right after returns v again, finds the
\* verdict in the cache and stores nothing, and neither call changes the
\* set, the trie or the array.
RepeatCoherent ==
  indexBuilt =>
    \A e \in Emails :
      LET first == isTempEmail(e)
          second == isTempEmailOn(e, first.idx, getCachedDomains)
      IN /\ second.value = first.value
         /\ second.idx.cache = first.idx.cache
         /\ <<first.idx.set, first.idx.trie, first.idx.array>> = indexVars
         /\ <<second.idx.set, second.idx.trie, second.idx.array>> = indexVars

\* a.b is cached as TRUE; the call on A@B.A stores FALSE for b.a behind it
\* and the repeated call returns FALSE from the cache
RepeatCoherentWitness ==
  /\ indexBuilt
  /\ DOMAIN_CACHE = << [key |-> <<"a", ".", "b">>, value |-> TRUE] >>
  /\ LET first == isTempEmail(<<"A", "@", "B", ".", "A", "A", " ">>)
         second == isTempEmailOn(<<"A", "@", "B", ".", "A", "A", " ">>, first.idx, getCachedDomains)
     IN /\ ~first.value
        /\ first.idx.cache # DOMAIN_CACHE
        /\ ~second.value

ValidOutcome ==
  \A e \in ValidateInputs :
    (e.some /\ e.val # <<>> /\ EMAIL_REGEX(e.val)) =>
      LET r == validateEmail(e)
          isTemp == isTempEmail(e.val).value
      IN /\ r.isValid
         /\ r.isTempEmail = isTemp
         /\ r.error = IF isTemp THEN Some("Email is from a temporary email service")
                      ELSE Null

\* the index is built from a.b alone: a@a.b is valid and temporary, a@b.a is
\* valid and not temporary
ValidOutcomeWitness ==
  /\ indexBuilt
  /\ validateEmail(Some(<<"a", "@", "a", ".", "b">>)).isValid
  /\ validateEmail(Some(<<"a", "@", "a", ".", "b">>)).error
       = Some("Email is from a temporary email service")
  /\ validateEmail(Some(<<"a", "@", "b", ".", "a", "a">>)).isValid
  /\ ~validateEmail(Some(<<"a", "@", "b", ".", "a", "a">>)).isTempEmail
  /\ validateEmail(Some(<<"a", "@", "b", ".", "a", "a">>)).error = Null

\* C15: format errors are returned as values. An empty or non-string input
\* gives {isValid: false, isTempEmail: false, error: "Email is required and
\* must be a string"}; any other input that fails the structural check gives
\* {false, false, "Invalid email format"}; in both cases the set, the trie,
\* the array and the verdict cache are left as they were.
FormatErrors ==
  \A e \in ValidateInputs :
    LET r == validateEmail(e)
    IN /\ (~e.some \/ e.val = <<>>) =>
            r = [isValid |-> FALSE, isTempEmail |-> FALSE,
                 error |-> Some("Email is required and must be a string"),
                 idx |-> indexNow]
       /\ (e.some /\ e.val # <<>> /\ ~EMAIL_REGEX(e.val)) =>
            r = [isValid |-> FALSE, isTempEmail |-> FALSE,
                 error |-> Some("Invalid email format"), idx |-> indexNow]

\* " a@a.b" is rejected for its format in a state where isTempEmail on the
\* same string would store a verdict
FormatErrorsWitness ==
  /\ indexBuilt
  /\ validateEmail(Some(<<" ", "a", "@", "a", ".", "b">>)).error
       = Some("Invalid email format")
  /\ validateEmail(Null).error = Some("Email is required and must be a string")
  /\ isTempEmail(<<" ", "a", "@", "a", ".", "b">>).value
  /\ isTempEmail(<<" ", "a", "@", "a", ".", "b">>).idx.cache # DOMAIN_CACHE

\* the strings of FormatStrings that EMAIL_REGEX accepts
AcceptedStrings == {s \in FormatStrings : EMAIL_REGEX(s)}

\* one "@", something before it, and after it something that holds a "."
claimedShape(s) ==
  /\ Cardinality({i \in 1..Len(s) : s[i] = "@"}) = 1
  /\ indexOf(s, "@") > 0
  /\ slice(s, indexOf(s, "@") + 1) # <<>>
  /\ \E j \in (indexOf(s, "@") + 2)..Len(s) : s[j] = "."

\* claimedShape, no white space anywhere, and a "." of the domain part that
\* is neither its first nor its last character
strictShape(s) ==
  /\ Cardinality({i \in 1..Len(s) : s[i] = "@"}) = 1
  /\ indexOf(s, "@") > 0
  /\ \A k \in 1..Len(s) : ~isSpace(s[k])
  /\ \E j \in (indexOf(s, "@") + 3)..(Len(s) - 1) : s[j] = "."

ClaimedStrings == {s \in FormatStrings : claimedShape(s)}
StrictStrings == {s \in FormatStrings : strictShape(s)}

\* C16 as stated: validateEmail reports isValid = TRUE for exactly the
\* non-empty strings with exactly one "@", a non-empty local part and a
\* non-empty domain part that contains a ".".
StructuralCheckAsClaimed ==
  /\ AcceptedStrings = ClaimedStrings
  /\ \A e \in ValidateInputs :
       (e.some /\ e.val # <<>>) => validateEmail(e).isValid = claimedShape(e.val)

\* C16: validateEmail reports isValid = TRUE for exactly the non-empty
\* strings that hold no white space and exactly one "@", with a non-empty
\* local part and a domain part in which some "." has at least one character
\* before it and at least one after it.
StructuralCheck ==
  /\ AcceptedStrings = StrictStrings
  /\ \A e \in ValidateInputs :
       (e.some /\ e.val # <<>>) => validateEmail(e).isValid = strictShape(e.val)

\* a@a.b is accepted; a@.b, a@b. and " a@a.b" have the shape of the original
\* statement and are rejected
StructuralCheckWitness ==
  /\ validateEmail(Some(<<"a", "@", "a", ".", "b">>)).isValid
  /\ AcceptedStrings # {}
  /\ \A s \in {<<"a", "@", ".", "b">>, <<"a", "@", "b", ".">>,
                <<" ", "a", "@", "a", ".", "b">>} :
       claimedShape(s) /\ ~validateEmail(Some(s)).isValid
  /\ indexBuilt

\* ------------------------------------------- properties: isTempEmail, index
\* C17: isTempEmail returns false for invalid e-mails. Whatever list is
\* loaded, an input that is empty, has no "@", starts with "@" (empty local
\* part) or has nothing after the "@" yields false.
InvalidEmailsAreFalse ==
  \A e \in Emails :
    (\/ e = <<>>
     \/ indexOf(e, "@") = -1
     \/ indexOf(e, "@") = 0
     \/ slice(e, indexOf(e, "@") + 1) = <<>>) => ~isTempEmail(e).value

\* C18: exactness of the set. For every domain D of the list the index was
\* built from, in whatever letter case the file supplied it, the membership
\* test of TEMP_EMAIL_DOMAINS_SET on the lowercased D succeeds: the set holds
\* lowercased forms only, and isTempEmail looks the lowercased domain up.
AcceleratorExact ==
  /\ indexBuilt =>
       /\ \A i \in 1..Len(TEMP_EMAIL_DOMAINS_ARRAY.val) :
            toLowerCase(TEMP_EMAIL_DOMAINS_ARRAY.val[i]) \in TEMP_EMAIL_DOMAINS_SET.val
       /\ \A d \in TEMP_EMAIL_DOMAINS_SET.val : d = toLowerCase(d)
  /\ \A content \in FileContents :
       LET loaded == loadDomainsFromFile(content)
       IN loaded.some =>
            \A i \in 1..Len(content.val) :
              LET D == trim(content.val[i])
              IN D # <<>> => toLowerCase(D) \in initializeDomains(loaded.val).set.val

\* the index is built from the file that holds "A.b ", and a.b is in the set
AcceleratorExactWitness ==
  /\ indexBuilt
  /\ TEMP_EMAIL_DOMAINS_ARRAY.val = ListA
  /\ <<"a", ".", "b">> \in TEMP_EMAIL_DOMAINS_SET.val
  /\ isTempEmail(<<"a", "@", "a", ".", "b">>).value

\* C19: idempotence of insert. Inserting a domain that is registered
\* already, in any letter case, leaves the trie as it is, and so hasDomain
\* for every query; fromDomains over a list with duplicates builds the trie
\* that fromDomains builds over the list without them.
InsertIdempotent ==
  /\ \A d \in inserted, v \in DomainStrings :
       toLowerCase(v) = toLowerCase(d) => insert(trie, v) = trie
  /\ \A ds \in Orderings(inserted) :
       /\ fromDomains(ds \o ds) = fromDomains(ds)
       /\ fromDomains(ds) = trie

\* b and a.b are registered and A.b is inserted on top of them
InsertIdempotentWitness ==
  /\ inserted = {<<"b">>, <<"a", ".", "b">>}
  /\ insert(trie, <<"A", ".", "b">>) = trie
  /\ hasDomain(trie, <<"b">>)

\* C20: initialize() on a built index is a no-op. Whenever the set, the trie
\* and the array are built, a call of initialize() starts no load and leaves
\* the set, the trie, the array and the verdict cache unchanged.
BuiltInitializeNoOp ==
  [][\A c \in Callers :
       (indexBuilt /\ callers'[c] # callers[c] /\ Call(c)) =>
          /\ UNCHANGED <<loads, loadPromise>>
          /\ callers'[c].pc = "loaded"
          /\ UNCHANGED <<indexVars, DOMAIN_CACHE>>]_vars

\* ----------------------------------------- properties: the index lifecycle
\* C21: getTempEmailDomains() returns the empty list exactly when the index
\* is not built, and otherwise the list the set and the trie were built
\* from; a clearCache() of the loader alone does not change what it returns.
DomainsListed ==
  /\ [](/\ (getTempEmailDomains = <<>>) <=> ~indexBuilt
        /\ indexBuilt =>
             /\ TEMP_EMAIL_DOMAINS_SET.val
                  = {getTempEmailDomains[i] : i \in 1..Len(getTempEmailDomains)}
             /\ TEMP_EMAIL_DOMAINS_TRIE.val = fromDomains(getTempEmailDomains))
  /\ [][ClearLoaderCache => getTempEmailDomains' = getTempEmailDomains]_vars

\* the index was built from [a.b] and the loader's cache has been cleared
\* since
DomainsListedWitness ==
  /\ indexBuilt
  /\ ~isDomainsLoaded
  /\ loadPromise = 0
  /\ getTempEmailDomains = ListA

\* ------------------------------------------ properties: lookups by e-mail
upperChar(c) == IF c = "a" THEN "A" ELSE IF c = "b" THEN "B" ELSE c

toUpperCase(s) == [i \in 1..Len(s) |-> upperChar(s[i])]

\* an e-mail with white space put before it or after it, or with its
\* letters all lowered or all raised
respellings(e) == {<<" ">> \o e, e \o <<" ">>, toLowerCase(e), toUpperCase(e)}

\* the respellings of each e-mail of Emails that differ from it
Respelled == [e \in Emails |-> respellings(e) \ {e}]

\* C22: white space and letter case do not matter to isTempEmail. With the
\* index built, an e-mail with white space added before or after it, or with
\* the case of its letters changed, gets the verdict of the e-mail itself.
SpellingTolerance ==
  indexBuilt =>
    \A e \in Emails :
      LET verdict == isTempEmail(e).value
      IN \A w \in Respelled[e] : isTempEmail(w).value = verdict

\* a.b is listed and not cached yet: a@a.b, " a@a.b", "a@a.b " and A@A.B are
\* all temporary
SpellingToleranceWitness ==
  /\ indexBuilt
  /\ DOMAIN_CACHE = <<>>
  /\ isTempEmail(<<"a", "@", "a", ".", "b">>).value
  /\ \A w \in respellings(<<"a", "@", "a", ".", "b">>) : isTempEmail(w).value
  /\ ~isTempEmail(<<"A", "@", "B", ".", "A", "A", " ">>).value

\* the verdict the built index gives for a domain, with no cache in between
freshVerdict(domain) ==
  \/ domain \in TEMP_EMAIL_DOMAINS_SET.val
  \/ hasDomain(TEMP_EMAIL_DOMAINS_TRIE.val, domain)

\* C26: cached verdicts are never stale. In every reachable state the cache
\* is empty while the index is not built, each cache entry holds the verdict
\* the current set and trie give for its domain, and isTempEmail returns for
\* every e-mail what it returns with an empty cache.
CacheFresh ==
  /\ ~indexBuilt => DOMAIN_CACHE = <<>>
  /\ indexBuilt =>
       /\ \A i \in 1..Len(DOMAIN_CACHE) :
            DOMAIN_CACHE[i].value = freshVerdict(DOMAIN_CACHE[i].key)
       /\ \A e \in Emails :
            isTempEmail(e).value =
              isTempEmailOn(e, [indexNow EXCEPT !.cache = <<>>], getCachedDomains).value

\* the index was built from the second list after a reset and the cache is
\* full: a.b, listed in the first list only, is cached as not temporary
\* and b.aa as temporary
CacheFreshWitness ==
  /\ indexBuilt
  /\ getTempEmailDomains = ListB
  /\ \E c \in Callers : callers[c].reset
  /\ Len(DOMAIN_CACHE) = MAX_CACHE_SIZE
  /\ \E i \in 1..Len(DOMAIN_CACHE) :
       DOMAIN_CACHE[i] = [key |-> <<"a", ".", "b">>, value |-> FALSE]
  /\ \E i \in 1..Len(DOMAIN_CACHE) :
       DOMAIN_CACHE[i] = [key |-> <<"b", ".", "a", "a">>, value |-> TRUE]

\* the domain part of an e-mail as isTempEmail extracts it
domainOf(e) ==
  IF indexOf(e, "@") = -1 THEN <<>>
  ELSE trim(toLowerCase(slice(e, indexOf(e, "@") + 1)))

\* for each e-mail, the e-mails and respellings with its normalized domain
sameDomain ==
  [e \in Emails |->
     {w \in Emails \cup respellings(e) : domainOf(w) = domainOf(e)}]

\* the e-mails that have a domain part
EmailsWithDomain == {e \in Emails : domainOf(e) # <<>>}

cacheDomains(cache) == {cache[i].key : i \in 1..Len(cache)}

\* C28: the cache is keyed on the normalized domain. Looking up an e-mail
\* adds at most one cache entry, keyed by its normalized domain; looking up
\* next any e-mail with the same normalized domain leaves the cache as it is
\* and returns the same verdict.
CacheKeyedByDomain ==
  \A e \in EmailsWithDomain :
    LET first == isTempEmail(e)
    IN /\ cacheDomains(first.idx.cache) \subseteq cacheDomains(DOMAIN_CACHE) \cup {domainOf(e)}
       /\ Len(first.idx.cache) <= Len(DOMAIN_CACHE) + 1
       /\ \A w \in sameDomain[e] :
            LET second == isTempEmailOn(w, first.idx, getCachedDomains)
            IN /\ second.value = first.value
               /\ second.idx.cache = first.idx.cache

\* with the index built and nothing cached, a@a.b and @a.b have the same
\* normalized domain; the first lookup adds the one entry a.b
CacheKeyedByDomainWitness ==
  /\ indexBuilt
  /\ DOMAIN_CACHE = <<>>
  /\ <<"@", "a", ".", "b">> \in sameDomain[<<"a", "@", "a", ".", "b">>]
  /\ isTempEmail(<<"a", "@", "a", ".", "b">>).idx.cache =
       << [key |-> <<"a", ".", "b">>, value |-> TRUE] >>

\* the candidate domains isTempEmail can come to look up: lowercased and
\* trimmed
Candidates == {trim(toLowerCase(q)) : q \in QueryStrings}

\* C27: the set is a pure optimisation. For every list the index is built
\* from and every lowercased, trimmed candidate domain, membership in the
\* set implies trie.hasDomain, so that "in the set or hasDomain" has the
\* value of hasDomain alone.
AcceleratorRedundant ==
  indexBuilt =>
    \A d \in TEMP_EMAIL_DOMAINS_SET.val :
      d \in Candidates => hasDomain(TEMP_EMAIL_DOMAINS_TRIE.val, d)

\* the index built from a list of MaxInserts different entries, one of them
\* a lowercase two-label domain
AcceleratorRedundantWitness ==
  /\ indexBuilt
  /\ Cardinality(TEMP_EMAIL_DOMAINS_SET.val) = MaxInserts
  /\ \E d \in TEMP_EMAIL_DOMAINS_SET.val :
       /\ d \in Candidates
       /\ Len(labels(d)) = 2
       /\ freshVerdict(d)

\* ------------------------------------------- properties: loads and resets
\* C24: at most one load in flight. In every reachable state, whatever the
\* interleaving of initialize() calls, clearCache() calls and load
\* completions, at most one load closure is running.
AtMostOneLoad == Cardinality({l \in LoadIds : loads[l].state = "running"}) <= 1

\* an initialize() call made after the last clearCache() of index.ts has a
\* load that completed
laterLoadDone ==
  \E c \in Callers :
    /\ callers[c].pc # "idle"
    /\ ~callers[c].reset
    /\ callers[c].load # 0
    /\ loads[callers[c].load].state = "fulfilled"

\* load l is running and clearCache() of index.ts was called since it started
staleRunning(l) ==
  /\ loads[l].state = "running"
  /\ \E c \in Callers : callers[c].load = l /\ callers[c].reset

\* C25: a load started before a reset never repopulates state after it.
\* When a load that was in flight at a clearCache() of index.ts completes
\* and no load started by a later initialize() call has completed, the
\* system is still not ready: isDomainsLoaded() is false,
\* getTempEmailDomains() is empty and isTempEmail is false.
StaleLoadInert ==
  [][\A l \in LoadIds :
       (staleRunning(l) /\ loads'[l].state # "running" /\ ~laterLoadDone') =>
          /\ ~isDomainsLoaded'
          /\ getTempEmailDomains' = <<>>
          /\ \A e \in Emails : ~(isTempEmail(e).value)']_vars

\* ------------------------------------------------ properties: the loader
\* a list without two equal entries, each entry lowercase and trimmed
isNormalizedList(list) ==
  /\ \A i, j \in 1..Len(list) : list[i] = list[j] => i = j
  /\ \A i \in 1..Len(list) : list[i] = trim(toLowerCase(list[i]))

\* C23: the list produced by loadDomains() is deduplicated and normalized,
\* whichever path supplied it: the value of every fulfilled load and the
\* list the loader caches hold no two equal entries, and every entry is
\* lowercase and trimmed.
LoadedListNormalized ==
  /\ cachedDomains.some => isNormalizedList(cachedDomains.val)
  /\ \A l \in LoadIds : loads[l].state = "fulfilled" => isNormalizedList(loads[l].value)

\* -------------------------------- properties of DomainTrie: malformed input
\* the trie is a tree of nodes under the root with its terminal nodes in it
isTrie(t) ==
  /\ <<>> \in t.nodes
  /\ t.ends \subseteq t.nodes
  /\ \A p \in t.nodes : p # <<>> => SubSeq(p, 1, Len(p) - 1) \in t.nodes

\* the empty string, the strings without a dot, the whitespace-only string
Dotless == {<<>>, <<" ">>} \cup Labels

\* the well-formed queries with a dot
DottedQueries == {q \in WellFormedQueries : Len(labels(q)) >= 2}

\* some spelling of m was inserted
insertedItself(m) == \E d \in inserted : toLowerCase(d) = toLowerCase(m)

\* this step inserts one new entry, taken from S
insertsOneOf(S) == inserted' # inserted /\ (inserted' \ inserted) \subseteq S

\* C29 as stated: insert and hasDomain never fail on the empty string, a
\* string without a dot or a whitespace-only string; hasDomain on such a
\* query is false; and inserting such an entry changes hasDomain for no
\* well-formed query.
MalformedHarmlessAsClaimed ==
  /\ [](/\ isTrie(trie)
        /\ \A m \in Dotless : ~hasDomain(trie, m))
  /\ [][insertsOneOf(Dotless) =>
          \A q \in DottedQueries : hasDomain(trie', q) = hasDomain(trie, q)]_vars

\* C29: the index never fails on malformed input. insert and hasDomain
\* complete on the empty string, a string without a dot and a
\* whitespace-only string and leave a well-formed trie; hasDomain on such a
\* query is true exactly when that string was itself inserted, in some
\* letter case; and inserting an entry that is empty, whitespace-only or
\* has an empty label changes hasDomain for no well-formed query.
MalformedHarmless ==
  /\ [](/\ isTrie(trie)
        /\ \A m \in Dotless : hasDomain(trie, m) = insertedItself(m))
  /\ [][insertsOneOf(Malformed) =>
          \A q \in WellFormedQueries : hasDomain(trie', q) = hasDomain(trie, q)]_vars

\* the empty string was inserted next to a.b: it is found itself, the
\* whitespace-only string is not, and a.b still is
MalformedHarmlessWitness ==
  /\ inserted = {<<>>, <<"a", ".", "b">>}
  /\ hasDomain(trie, <<>>)
  /\ ~hasDomain(trie, <<" ">>)
  /\ ~hasDomain(trie, <<"a">>)
  /\ hasDomain(trie, <<"a", ".", "b">>)
  /\ ~hasDomain(trie, <<"b", ".", "a">>)

\* ---------------------------------- properties of DomainTrie: monotonicity
\* the node an inserted domain ends at
nodeOf(d) == reverse(labels(d))

\* node has a child
hasChildren(t, node) == \E p \in t.nodes : Len(p) = Len(node) + 1 /\ SubSeq(p, 1, Len(node)) = node

\* C30: insert is monotone. No insert turns a hasDomain result from true to
\* false; every inserted domain keeps its terminal node, whether inserted
\* before or after a subdomain of it, so that with D and P.D inserted the
\* node of D is terminal and has children; the root is never terminal.
InsertMonotone ==
  /\ [](/\ <<>> \notin trie.ends
        /\ \A d \in inserted : nodeOf(d) \in trie.ends /\ hasDomain(trie, d))
  /\ [][trie' # trie =>
          \A q \in QueryStrings : hasDomain(trie, q) => hasDomain(trie', q)]_vars

\* b and a.b are both inserted: the node of b is terminal and has the child
\* that a.b ends at
InsertMonotoneWitness ==
  /\ inserted = {<<"b">>, <<"a", ".", "b">>}
  /\ nodeOf(<<"b">>) \in trie.ends
  /\ hasChildren(trie, nodeOf(<<"b">>))
  /\ nodeOf(<<"a", ".", "b">>) \in trie.ends
  /\ hasDomain(trie, <<"b">>)
  /\ hasDomain(trie, <<"a", ".", "b">>)
====
